---- MODULE Spec2Model ----
(***************************************************************************)
(* A model of nommidi (src/src/lib.rs): a Standard MIDI File parser built  *)
(* from nom parser combinators.  Bytes are the integers 0..255, a buffer   *)
(* is a sequence of bytes, and a slice &input[k..] is the suffix of the    *)
(* sequence.  Every parser is an operator from the remaining input to an   *)
(* IResult; parse_file's do_parse! sequence (header, many0!(chunk), eof!)  *)
(* is the state machine, one action per step of the sequence and one per   *)
(* iteration of many0!(chunk).                                             *)
(***************************************************************************)
EXTENDS Integers, Sequences, FiniteSets, TLC

VARIABLES
  input,   \* the buffer handed to parse_midi (or to var_length)
  pc,      \* the step of parse_file's do_parse! that runs next
  rest,    \* the input parse_file has not consumed yet
  hdr,     \* the Header bound by "header: header >>"
  chunks,  \* the Vec<Option<Chunk>> many0!(chunk) has collected so far
  result   \* what the call returned: Ok / Err / a panic, or an IResult

vars == <<input, pc, rest, hdr, chunks, result>>

\* ------------------------------------------------------------------------
\* nom::IResult, and a panic unwinding through the parsers
\* ------------------------------------------------------------------------

\* IResult::Done(rest, out)
Done(i, o) == [kind |-> "Done", rest |-> i, out |-> o]

\* IResult::Error(ErrorKind): "Tag", "Eof", "Alt", "Switch", "Many0" are nom's
\* kinds, "Custom0" is ErrorKind::Custom(0)
Error(e) == [kind |-> "Error", err |-> e]

\* IResult::Incomplete(Needed); the Needed amount is never inspected by the
\* program and is left out
Incomplete == [kind |-> "Incomplete"]

\* a Rust panic raised inside a parser; it unwinds through every combinator
Panic(why) == [kind |-> "Panic", why |-> why]

Drop(i, n) == SubSeq(i, n + 1, Len(i))

Take(i, n) == SubSeq(i, 1, n)

Min(a, b) == IF a < b THEN a ELSE b

\* ------------------------------------------------------------------------
\* nom primitives used by the program
\* ------------------------------------------------------------------------

\* tag!(t): compares the common prefix first; a mismatch is Error(Tag), a
\* matching but short input is Incomplete
tag(i, t) ==
  LET m == Min(Len(i), Len(t)) IN
  IF Take(i, m) # Take(t, m) THEN Error("Tag")
  ELSE IF m < Len(t) THEN Incomplete
  ELSE Done(Drop(i, Len(t)), t)

\* take!(n), n a u32 widened to usize; a negative n stands for a count of
\* 2^31 or more (see be_u32), which no buffer of the model holds
take(i, n) ==
  IF n < 0 \/ Len(i) < n THEN Incomplete ELSE Done(Drop(i, n), Take(i, n))

be_u8(i) ==
  IF Len(i) < 1 THEN Incomplete ELSE Done(Drop(i, 1), i[1])

be_u16(i) ==
  IF Len(i) < 2 THEN Incomplete ELSE Done(Drop(i, 2), i[1] * 256 + i[2])

\* a u32 of 2^31 or more is held as the number minus 2^32 (the same 32 bits,
\* read as two's complement): the model's integers are 32 bits wide
be_u32(i) ==
  IF Len(i) < 4 THEN Incomplete
  ELSE LET top == IF i[1] >= 128 THEN i[1] - 256 ELSE i[1] IN
       Done(Drop(i, 4), ((top * 256 + i[2]) * 256 + i[3]) * 256 + i[4])

\* eof!()
eof(i) ==
  IF Len(i) = 0 THEN Done(i, i) ELSE Error("Eof")

\* ------------------------------------------------------------------------
\* nom combinators
\* ------------------------------------------------------------------------

\* one step of do_parse! / try_parse!: anything but Done ends the sequence
\* and is its result (Error and Incomplete alike), Done goes on with K
AndThen(r, K(_)) == IF r.kind = "Done" THEN K(r) ELSE r

\* one branch of alt!: Done and Incomplete are the result, an Error tries the
\* rest of the branches
OrElse(r, others) == IF r.kind = "Error" THEN others ELSE r

\* ------------------------------------------------------------------------
\* Utility parsers
\* ------------------------------------------------------------------------

VarLengthMaxBytes == 4

\* the body of the for loop of var_length, from iteration k with the
\* accumulator result; four rounds of result <<= 7 keep it below 2^28, so the
\* u32 never wraps
RECURSIVE var_length_loop(_, _, _)
var_length_loop(i, k, acc) ==
  IF k >= VarLengthMaxBytes THEN Error("Custom0")
  ELSE IF k >= Len(i) THEN Incomplete
  ELSE IF i[k + 1] \div 128 = 0
       THEN Done(Drop(i, k + 1), (acc * 128) + (i[k + 1] % 128))
       ELSE var_length_loop(i, k + 1, (acc * 128) + (i[k + 1] % 128))

\* var_length with result <<= 8 in place of result <<= 7
RECURSIVE var_length_shift8_loop(_, _, _)
var_length_shift8_loop(i, k, acc) ==
  IF k >= VarLengthMaxBytes THEN Error("Custom0")
  ELSE IF k >= Len(i) THEN Incomplete
  ELSE IF i[k + 1] \div 128 = 0
       THEN Done(Drop(i, k + 1), ((acc % 65536) * 256) + (i[k + 1] % 128))
       ELSE var_length_shift8_loop(i, k + 1, ((acc % 65536) * 256) + (i[k + 1] % 128))

var_length_shift8(i) == var_length_shift8_loop(i, 0, 0)

var_length(i) == var_length_loop(i, 0, 0)

\* ------------------------------------------------------------------------
\* Events
\* ------------------------------------------------------------------------

MidiEvent == [type |-> "MidiEvent"]

\* preceded!(take!(2), value!(MidiEvent {}))
midi_event(i) ==
  AndThen(take(i, 2), LAMBDA r: Done(r.rest, MidiEvent))

meta_event(i) ==
  AndThen(tag(i, <<255>>), LAMBDA t:
  AndThen(be_u8(t.rest), LAMBDA kind:
  AndThen(var_length(kind.rest), LAMBDA len:
  AndThen(take(len.rest, len.out), LAMBDA data:
    Done(data.rest, [type |-> "MetaEvent", kind |-> kind.out, data |-> data.out])))))

\* the struct expression of sysex_event indexes data[data.len()-1]: on empty
\* data the subtraction overflows (a panic in a debug build) or wraps to
\* usize::MAX (an out-of-bounds index panic in a release build)
SysexValue(kind, data) ==
  IF Len(data) = 0
  THEN Panic("sysex_event: data[data.len()-1] on empty data")
  ELSE [kind |-> "Value",
        out |-> [type |-> "SysexEvent",
                 start |-> (kind = <<240>>),
                 end |-> (data[Len(data)] = 247),
                 data |-> data]]

\* the value of a do_parse!, which may have panicked
Built(i, v) == IF v.kind = "Panic" THEN v ELSE Done(i, v.out)

sysex_event(i) ==
  AndThen(OrElse(tag(i, <<240>>), OrElse(tag(i, <<247>>), Error("Alt"))), LAMBDA kind:
  AndThen(var_length(kind.rest), LAMBDA len:
  AndThen(take(len.rest, len.out), LAMBDA data:
    Built(data.rest, SysexValue(kind.out, data.out)))))

\* map!(.., |x| Event::Meta(dt, x)) and its two siblings
EventOf(dt, body) ==
  CASE body.type = "MetaEvent" -> [type |-> "Meta", dt |-> dt, kind |-> body.kind,
                                   data |-> body.data]
    [] body.type = "SysexEvent" -> [type |-> "Sysex", dt |-> dt, start |-> body.start,
                                    end |-> body.end, data |-> body.data]
    [] body.type = "MidiEvent" -> [type |-> "Midi", dt |-> dt]

\* an arm of switch!: an Error of the chosen sub-parser is Error(Switch)
SwitchArm(sub) == IF sub.kind = "Error" THEN Error("Switch") ELSE sub

\* switch!(be_u8, 0xFF => meta_event | 0xF0 => sysex_event | 0xF7 => sysex_event):
\* be_u8 consumes the lead byte and the chosen sub-parser runs on what follows
\* it; no matching arm is Error(Switch)
event_switch(i) ==
  AndThen(be_u8(i), LAMBDA lead:
    CASE lead.out = 255 -> SwitchArm(meta_event(lead.rest))
      [] lead.out = 240 -> SwitchArm(sysex_event(lead.rest))
      [] lead.out = 247 -> SwitchArm(sysex_event(lead.rest))
      [] OTHER -> Error("Switch"))

\* alt!(switch!(..) | map!(midi_event, ..)): midi_event runs on the input of
\* the alt!, that is from the lead byte on
event_body(i) == OrElse(event_switch(i), OrElse(midi_event(i), Error("Alt")))

event(i) ==
  AndThen(var_length(i), LAMBDA dt:
  AndThen(event_body(dt.rest), LAMBDA ev:
    Done(ev.rest, EventOf(dt.out, ev.out))))

\* many0!(event): Done at the end of the input and at the first Error of
\* event (the Error is dropped, the events so far are kept); Incomplete is
\* passed on; an event that consumed nothing is Error(Many0)
RECURSIVE many0_event(_, _)
many0_event_step(i, acc, r) ==
  CASE r.kind = "Error" -> Done(i, acc)
    [] r.kind = "Incomplete" -> r
    [] r.kind = "Panic" -> r
    [] r.kind = "Done" ->
         IF r.rest = i THEN Error("Many0")
         ELSE many0_event(r.rest, Append(acc, r.out))

many0_event(i, acc) ==
  IF Len(i) = 0 THEN Done(i, acc) ELSE many0_event_step(i, acc, event(i))

\* terminated!(many0!(event), eof!())
track_events(data) ==
  AndThen(many0_event(data, <<>>), LAMBDA events:
  AndThen(eof(events.rest), LAMBDA e:
    Done(e.rest, events.out)))

\* ------------------------------------------------------------------------
\* Containers
\* ------------------------------------------------------------------------

MThd == <<77, 84, 104, 100>>

MTrk == <<77, 84, 114, 107>>

header(i) ==
  AndThen(tag(i, MThd), LAMBDA t:
  AndThen(be_u32(t.rest), LAMBDA len:
  AndThen(be_u16(len.rest), LAMBDA format:
  AndThen(be_u16(format.rest), LAMBDA tracks:
  AndThen(be_u16(tracks.rest), LAMBDA division:
    Done(division.rest, [len |-> len.out, format |-> format.out,
                         tracks |-> tracks.out, division |-> division.out]))))))

\* track: the frame (tag, length, take!(len)), then the events of the body
\* alone; the rest of the input after the body is what track returns
track(i) ==
  AndThen(tag(i, MTrk), LAMBDA t:
  AndThen(be_u32(t.rest), LAMBDA len:
  AndThen(take(len.rest, len.out), LAMBDA data:
  AndThen(track_events(data.out), LAMBDA events:
    Done(data.rest, [events |-> events.out])))))

NoChunk == [tag |-> "None"]

SomeTrack(t) == [tag |-> "Track", events |-> t.events]

ignore(i) ==
  AndThen(take(i, 4), LAMBDA t:
  AndThen(be_u32(t.rest), LAMBDA len:
  AndThen(take(len.rest, len.out), LAMBDA data:
    Done(data.rest, NoChunk))))

\* opt!(tag!(b"MTrk")): an Error is None, Incomplete is passed on
opt_tag(i, t) == OrElse(tag(i, t), Done(i, <<>>))

\* chunk: the tag is only looked at (the rest of opt! is dropped); track and
\* ignore both start again from the tag
chunk(i) ==
  AndThen(opt_tag(i, MTrk), LAMBDA check:
    IF check.out = MTrk
    THEN AndThen(track(i), LAMBDA t: Done(t.rest, SomeTrack(t.out)))
    ELSE ignore(i))

\* chunks.into_iter().filter_map(|x| x).collect()
RECURSIVE filter_map(_)
filter_map(cs) ==
  IF cs = <<>> THEN <<>>
  ELSE IF cs[1].tag = "None" THEN filter_map(Tail(cs))
       ELSE <<[events |-> cs[1].events]>> \o filter_map(Tail(cs))

\* ------------------------------------------------------------------------
\* parse_midi: what the caller gets
\* ------------------------------------------------------------------------

NoResult == [kind |-> "None"]

Ok(m) == [kind |-> "Ok", midi |-> m]

Err(e) == [kind |-> "Err", err |-> e]

\* the match of parse_midi on a failed parse_file: an Error is returned as
\* Err, an Incomplete reaches unreachable!() and a panic keeps unwinding
Failed(r) ==
  CASE r.kind = "Error" -> Err(r.err)
    [] r.kind = "Incomplete" -> Panic("parse_midi: unreachable!()")
    [] r.kind = "Panic" -> r

NoHeader == [len |-> 0, format |-> 0, tracks |-> 0, division |-> 0]

\* ------------------------------------------------------------------------
\* Input buffers: the byte-level encodings the parser is run on
\* ------------------------------------------------------------------------

U16(n) == <<(n \div 256) % 256, n % 256>>

U32(n) == <<(n \div 16777216) % 256, (n \div 65536) % 256, (n \div 256) % 256, n % 256>>

\* the MIDI variable-length quantity of v (0 .. 0x0FFFFFFF): big-endian base
\* 128, the continuation bit set on every byte but the last
EncodeVLQ(v) ==
  IF v < 128 THEN <<v>>
  ELSE IF v < 16384 THEN <<128 + (v \div 128), v % 128>>
  ELSE IF v < 2097152
       THEN <<128 + (v \div 16384), 128 + ((v \div 128) % 128), v % 128>>
       ELSE <<128 + (v \div 2097152), 128 + ((v \div 16384) % 128),
              128 + ((v \div 128) % 128), v % 128>>

\* a chunk frame: tag, big-endian length, body
Frame(t, body) == t \o U32(Len(body)) \o body

\* an MThd chunk of declared length 6 + Len(extra)
HeaderBytes(format, tracks, division, extra) ==
  MThd \o U32(6 + Len(extra)) \o U16(format) \o U16(tracks) \o U16(division) \o extra

RECURSIVE Concat(_)
Concat(ss) == IF ss = <<>> THEN <<>> ELSE ss[1] \o Concat(Tail(ss))

\* the header of the sample files: format 1, 2 tracks, division 0x60
StdHeader == HeaderBytes(1, 2, 96, <<>>)

StdHeaderValue == [len |-> 6, format |-> 1, tracks |-> 2, division |-> 96]

\* a file: the standard header followed by the frames
File(frames) == StdHeader \o Concat(frames)

\* a file with one MTrk chunk of the given body
TrackFile(body) == File(<<Frame(MTrk, body)>>)

XTRA == <<88, 84, 82, 65>>

\* events as the file format writes them
MetaBytes(d, k, data) == EncodeVLQ(d) \o <<255, k>> \o EncodeVLQ(Len(data)) \o data

SysexBytes(d, intro, data) == EncodeVLQ(d) \o <<intro>> \o EncodeVLQ(Len(data)) \o data

ChannelBytes(d, status, data) == EncodeVLQ(d) \o <<status>> \o data

RunningBytes(d, data) == EncodeVLQ(d) \o data

\* the number of data bytes of a channel message, by its status byte
DataLen(status) == IF status \div 16 \in {12, 13} THEN 1 ELSE 2

\* ------------------------------------------------------------------------
\* Bounds of the explored inputs
\* ------------------------------------------------------------------------

\* longest meta / sysex payload
MaxData == 3

\* most chunk frames after the header
MaxFrames == 2

\* most bytes by which the declared MThd length exceeds 6
MaxExtra == 2

\* most bytes following an encoded variable-length quantity
MaxTail == 1

\* the variable-length quantities 0 .. MaxSmall are all tried
MaxSmall == 300

\* payloads: 0x41 0x42 .., and the same ending in 0xF7
Payload(n) == [j \in 1..n |-> 64 + j]

PayloadF7(n) == [j \in 1..n |-> IF j = n THEN 247 ELSE 64 + j]

Datas == {Payload(n) : n \in 0..MaxData} \cup {PayloadF7(n) : n \in 1..MaxData}

Deltas == {0, 64, 128}

Kinds == {1, 47}

Statuses == {128, 144, 160, 176, 192, 208, 224}

\* data bytes of channel messages
DataBytes(n) == IF n = 1 THEN {<<5>>, <<64>>} ELSE {<<64, 127>>, <<64, 0>>}

SeqsUpTo(S, n) == UNION {[1..k -> S] : k \in 0..n}

\* track bodies holding one event in the file format's form
MetaBodies == {MetaBytes(d, k, data) : d \in Deltas, k \in Kinds, data \in Datas}

SysexBodies == {SysexBytes(d, intro, data) : d \in Deltas, intro \in {240, 247}, data \in Datas}

ChannelBodies ==
  UNION {{ChannelBytes(d, s, x) : d \in Deltas, x \in DataBytes(DataLen(s))} : s \in Statuses}

\* two channel events, each with its own status byte
ChannelPairBodies ==
  UNION {{ChannelBytes(0, s1, x1) \o ChannelBytes(0, s2, x2) :
            x1 \in DataBytes(DataLen(s1)), x2 \in DataBytes(DataLen(s2))} :
         s1 \in Statuses, s2 \in Statuses}

\* a channel event followed by one under running status
RunningBodies ==
  UNION {{ChannelBytes(0, s, x) \o RunningBytes(d, y) :
            x \in DataBytes(DataLen(s)), y \in DataBytes(DataLen(s)), d \in {0, 64}} :
         s \in Statuses}

\* bodies in which the introducer byte appears twice, the form event's
\* switch! followed by meta_event / sysex_event reads as one event
DoubledMetaBodies ==
  {EncodeVLQ(d) \o <<255, 255, k>> \o EncodeVLQ(Len(data)) \o data :
     d \in Deltas, k \in Kinds, data \in Datas}

DoubledSysexBodies ==
  {EncodeVLQ(d) \o <<lead, intro>> \o EncodeVLQ(Len(data)) \o data :
     d \in Deltas, lead \in {240, 247}, intro \in {240, 247}, data \in Datas}

\* a variable-length quantity whose first four bytes all carry the
\* continuation bit
BadVLQ == <<128, 128, 128, 128>>

\* bodies in which a sub-decoder meets a malformed variable-length quantity:
\* as a delta time (first or second event), as a meta or sysex length
MalformedBodies ==
  {BadVLQ \o t : t \in {<<>>, <<0>>, <<0, 192, 5>>}}
  \cup {ChannelBytes(0, 192, <<5>>) \o BadVLQ \o t : t \in {<<>>, <<0>>}}
  \cup {<<0, 255, 1>> \o BadVLQ \o t : t \in {<<>>, <<0, 0, 0>>}}
  \cup {<<0, 255, 255, 1>> \o BadVLQ \o <<0, 0, 0>>}
  \cup {<<0, 240, 240>> \o BadVLQ \o t : t \in {<<>>, <<0>>}}

\* bodies whose last event needs bytes past the end of the body: a payload
\* length, a variable-length quantity, or channel data bytes cut short
CutBodies ==
  {<<0, 255, 1, 5, 65>>, <<0, 255, 255, 1, 5, 65>>, <<0, 240, 3, 65>>,
   <<0, 240, 240, 3, 65>>, <<129>>, <<0, 192, 5, 129, 128>>, <<0>>,
   <<0, 144>>, <<0, 192>>, <<0, 255>>, <<0, 255, 1>>}

\* files in which such a body is a whole chunk of its own
CutTrackInputs == {TrackFile(b) : b \in CutBodies}

\* and files in which another chunk follows it
BoundaryInputs ==
  {File(<<Frame(MTrk, b), Frame(MTrk, ChannelBytes(0, 192, <<5>>))>>) : b \in CutBodies}

TrackBodies ==
  {<<>>} \cup MetaBodies \cup SysexBodies \cup ChannelBodies \cup ChannelPairBodies
  \cup RunningBodies \cup DoubledMetaBodies \cup DoubledSysexBodies
  \cup MalformedBodies \cup CutBodies

TrackInputs == {TrackFile(b) : b \in TrackBodies}

\* chunk frames for files of several chunks: the bytes of the frame and, for
\* an MTrk frame, the events its body encodes
FrameDescs ==
  {[tag |-> XTRA, body |-> <<171, 205>>, events |-> <<>>],
   [tag |-> XTRA, body |-> <<>>, events |-> <<>>],
   [tag |-> MThd, body |-> <<0, 0, 0, 1, 0, 96>>, events |-> <<>>],
   [tag |-> MTrk, body |-> <<>>, events |-> <<>>],
   [tag |-> MTrk, body |-> ChannelBytes(0, 192, <<5>>),
    events |-> <<[type |-> "Midi", dt |-> 0]>>],
   [tag |-> MTrk, body |-> MetaBytes(0, 47, <<>>),
    events |-> <<[type |-> "Meta", dt |-> 0, kind |-> 47, data |-> <<>>]>>]}

FrameSeqs == SeqsUpTo(FrameDescs, MaxFrames)

FramesBytes(fs) == Concat([j \in 1..Len(fs) |-> Frame(fs[j].tag, fs[j].body)])

\* the chunks a file of these frames holds: the MTrk ones, in order
RECURSIVE FramesChunks(_)
FramesChunks(fs) ==
  IF fs = <<>> THEN <<>>
  ELSE IF fs[1].tag = MTrk
       THEN <<[events |-> fs[1].events]>> \o FramesChunks(Tail(fs))
       ELSE FramesChunks(Tail(fs))

FrameInputs == {StdHeader \o FramesBytes(fs) : fs \in FrameSeqs}

\* headers whose declared length is 6 + n, the n further body bytes present
ExtraBytes(n) == [j \in 1..n |-> 170]

\* the frames whose body holds no meta event
PlainFrameDescs == {f \in FrameDescs : f.body # MetaBytes(0, 47, <<>>)}

LongHeaderFrames == SeqsUpTo(PlainFrameDescs, 1)

LongHeaderInputs ==
  {HeaderBytes(1, 2, 96, ExtraBytes(n)) \o FramesBytes(fs) :
     n \in 0..MaxExtra, fs \in LongHeaderFrames}

\* files cut short: every proper prefix of a sample file that does not end
\* at a chunk boundary
SampleFiles ==
  {File(<<Frame(XTRA, <<171, 205>>), Frame(MTrk, ChannelBytes(0, 192, <<5>>))>>),
   File(<<Frame(MTrk, <<0, 255, 255, 1, 3, 65, 66, 67>>)>>)}

\* whether the buffer is the 14-byte header followed by whole chunk frames
RECURSIVE WholeFrames(_)
WholeFrames(i) ==
  IF Len(i) = 0 THEN TRUE
  ELSE IF Len(i) < 8 THEN FALSE
  ELSE ignore(i).kind = "Done" /\ WholeFrames(ignore(i).rest)

Framed(i) == Len(i) >= 14 /\ WholeFrames(Drop(i, 14))

CutInputs ==
  UNION {{Take(f, n) : n \in {k \in 0..(Len(f) - 1) : ~Framed(Take(f, k))}} :
         f \in SampleFiles}

\* buffers that do not start with an MThd chunk
NoHeaderInputs == {Frame(MTrk, <<>>), Frame(XTRA, <<171, 205>>) \o StdHeader}

Inputs ==
  TrackInputs \cup FrameInputs \cup LongHeaderInputs \cup CutInputs
  \cup BoundaryInputs \cup NoHeaderInputs

\* ------------------------------------------------------------------------
\* parse_midi(input) as a state machine over parse_file's do_parse! sequence
\* ------------------------------------------------------------------------

Init ==
  /\ input \in Inputs
  /\ pc = "header"
  /\ rest = input
  /\ hdr = NoHeader
  /\ chunks = <<>>
  /\ result = NoResult

\* header: header >>
HeaderStep(r) ==
  IF r.kind = "Done"
  THEN /\ hdr' = r.out
       /\ rest' = r.rest
       /\ pc' = "chunks"
       /\ UNCHANGED result
  ELSE /\ result' = Failed(r)
       /\ pc' = "done"
       /\ UNCHANGED <<hdr, rest>>

ParseHeader ==
  /\ pc = "header"
  /\ HeaderStep(header(rest))
  /\ UNCHANGED <<input, chunks>>

\* one iteration of the loop of many0!(chunk), r what chunk returned
ChunkStep(r) ==
  CASE r.kind = "Done" ->
         IF r.rest = rest
         THEN /\ result' = Err("Many0")
              /\ pc' = "done"
              /\ UNCHANGED <<rest, chunks>>
         ELSE /\ chunks' = Append(chunks, r.out)
              /\ rest' = r.rest
              /\ UNCHANGED <<pc, result>>
    [] r.kind = "Error" ->
         /\ pc' = "eof"
         /\ UNCHANGED <<rest, chunks, result>>
    [] OTHER ->
         /\ result' = Failed(r)
         /\ pc' = "done"
         /\ UNCHANGED <<rest, chunks>>

\* chunks: many0!(chunk) >>, one chunk at a time: a Done chunk is kept and
\* the loop goes on; an Error ends the loop with the chunks so far (the
\* Error is dropped); Incomplete, or a panic, ends parse_file
ParseChunk ==
  /\ pc = "chunks"
  /\ Len(rest) > 0
  /\ ChunkStep(chunk(rest))
  /\ UNCHANGED <<input, hdr>>

\* many0!(chunk) at the end of the input
ChunksDone ==
  /\ pc = "chunks"
  /\ Len(rest) = 0
  /\ pc' = "eof"
  /\ UNCHANGED <<input, rest, hdr, chunks, result>>

\* eof!() >> (Midi { header, chunks: filter_map }) and parse_midi's match
FinishStep(r) ==
  result' = IF r.kind = "Done"
            THEN Ok([header |-> hdr, chunks |-> filter_map(chunks)])
            ELSE Failed(r)

Finish ==
  /\ pc = "eof"
  /\ FinishStep(eof(rest))
  /\ pc' = "done"
  /\ UNCHANGED <<input, rest, hdr, chunks>>

Next == ParseHeader \/ ParseChunk \/ ChunksDone \/ Finish

Spec == Init /\ [][Next]_vars

\* ------------------------------------------------------------------------
\* var_length(input), the other public function, called on its own
\* ------------------------------------------------------------------------

\* the quantities of test_var_length
TestValues ==
  {0, 64, 127, 128, 8192, 16383, 16384, 1048576, 2097151, 2097152, 134217728,
   268435455}

VLValues == (0..MaxSmall) \cup TestValues

Tails == SeqsUpTo({0, 127, 128, 255}, MaxTail)

\* encoded quantities followed by further bytes; four continuation bytes
\* followed by further bytes; continuation bytes that end early
VLInputs ==
  {EncodeVLQ(v) \o t : v \in VLValues, t \in Tails}
  \cup {c \o t : c \in [1..VarLengthMaxBytes -> {128, 129, 255}], t \in Tails}
  \cup SeqsUpTo({128, 255}, VarLengthMaxBytes - 1)

InitVarLength ==
  /\ input \in VLInputs
  /\ pc = "var_length"
  /\ rest = input
  /\ hdr = NoHeader
  /\ chunks = <<>>
  /\ result = NoResult

CallVarLength ==
  /\ pc = "var_length"
  /\ result' = var_length(input)
  /\ pc' = "done"
  /\ UNCHANGED <<input, rest, hdr, chunks>>

NextVarLength == CallVarLength

SpecVarLength == InitVarLength /\ [][NextVarLength]_vars

\* ------------------------------------------------------------------------
\* Properties
\* ------------------------------------------------------------------------

Finished == pc = "done"

OneTrack(events) == <<[events |-> events]>>

\* C1: a truncated buffer makes parse_midi return an error value: it never
\* panics.  The claim's UnexpectedEof is read as any Err value.  The buffers
\* are files cut off inside the header or inside a chunk, and files whose
\* track body ends inside an event.
C1_TruncatedReturnsError ==
  (Finished /\ input \in (CutInputs \cup CutTrackInputs)) => result.kind = "Err"

\* the encoder agrees with the byte strings of test_var_length
EncodeMatchesTests ==
  /\ EncodeVLQ(0) = <<0>>
  /\ EncodeVLQ(64) = <<64>>
  /\ EncodeVLQ(127) = <<127>>
  /\ EncodeVLQ(128) = <<129, 0>>
  /\ EncodeVLQ(8192) = <<192, 0>>
  /\ EncodeVLQ(16383) = <<255, 127>>
  /\ EncodeVLQ(16384) = <<129, 128, 0>>
  /\ EncodeVLQ(1048576) = <<192, 128, 0>>
  /\ EncodeVLQ(2097151) = <<255, 255, 127>>
  /\ EncodeVLQ(2097152) = <<129, 128, 128, 0>>
  /\ EncodeVLQ(134217728) = <<192, 128, 128, 0>>
  /\ EncodeVLQ(268435455) = <<255, 255, 255, 127>>

StartsWith(i, e) == Len(i) >= Len(e) /\ Take(i, Len(e)) = e

FourContinuationBytes(i) ==
  Len(i) >= VarLengthMaxBytes /\ \A j \in 1..VarLengthMaxBytes : i[j] >= 128

\* C2: var_length inverts the encoding: on the encoding of v followed by any
\* bytes it returns Done with the value v and exactly the following bytes as
\* the remainder; on four continuation bytes, whatever follows them, it
\* returns the Custom(0) error.
C2_VarLengthInvertsEncoding ==
  Finished =>
    /\ EncodeMatchesTests
    /\ \A v \in VLValues :
         StartsWith(input, EncodeVLQ(v)) =>
           result = Done(Drop(input, Len(EncodeVLQ(v))), v)
    /\ FourContinuationBytes(input) => result = Error("Custom0")

\* var_length has decoded the four-byte encoding of 0x0FFFFFFF and left the
\* byte after it as the remainder
C2_Witness ==
  /\ Finished
  /\ input = EncodeVLQ(268435455) \o <<128>>
  /\ result = Done(<<128>>, 268435455)

\* C3: a track body holding one meta event, VLQ(delta) 0xFF kind VLQ(len)
\* data, decodes to exactly one Meta event with that delta, kind and data.
C3_MetaEventDecoded ==
  Finished =>
    \A d \in Deltas, k \in Kinds, data \in Datas :
      input = TrackFile(MetaBytes(d, k, data)) =>
        /\ result.kind = "Ok"
        /\ result.midi.chunks =
             OneTrack(<<[type |-> "Meta", dt |-> d, kind |-> k, data |-> data]>>)

\* C4: channel events with an explicit status byte consume the status byte
\* and 2 data bytes (1 for 0xC_ and 0xD_): a body of one such event decodes
\* to one Midi event with its delta, a body of two to two Midi events, the
\* second delta read right after the data bytes of the first.
C4_ChannelEventsDecoded ==
  Finished =>
    /\ \A d \in Deltas, s \in Statuses :
         \A x \in DataBytes(DataLen(s)) :
           input = TrackFile(ChannelBytes(d, s, x)) =>
             /\ result.kind = "Ok"
             /\ result.midi.chunks = OneTrack(<<[type |-> "Midi", dt |-> d]>>)
    /\ \A s1 \in Statuses, s2 \in Statuses :
         \A x1 \in DataBytes(DataLen(s1)), x2 \in DataBytes(DataLen(s2)) :
           input = TrackFile(ChannelBytes(0, s1, x1) \o ChannelBytes(0, s2, x2)) =>
             /\ result.kind = "Ok"
             /\ result.midi.chunks =
                  OneTrack(<<[type |-> "Midi", dt |-> 0], [type |-> "Midi", dt |-> 0]>>)

\* C5: running status: after a channel event with an explicit status byte,
\* an event whose lead byte has the high bit clear is a channel event too,
\* the lead byte its first data byte: the body decodes, without failure, to
\* two Midi events with the two deltas.
C5_RunningStatusDecoded ==
  Finished =>
    \A s \in Statuses, d \in {0, 64} :
      \A x \in DataBytes(DataLen(s)), y \in DataBytes(DataLen(s)) :
        input = TrackFile(ChannelBytes(0, s, x) \o RunningBytes(d, y)) =>
          /\ result.kind = "Ok"
          /\ result.midi.chunks =
               OneTrack(<<[type |-> "Midi", dt |-> 0], [type |-> "Midi", dt |-> d]>>)

SysexIndexPanic == Panic("sysex_event: data[data.len()-1] on empty data")

\* C6: a sysex event, introducer 0xF0 or 0xF7, VLQ(len), data, decodes to a
\* Sysex event with start = (introducer = 0xF0), that data, and end true
\* exactly when the data is non-empty and ends in 0xF7; empty data decodes
\* with end false, and indexing the data never panics.
C6_SysexEventDecoded ==
  Finished =>
    /\ \A d \in Deltas, intro \in {240, 247}, data \in Datas :
         input = TrackFile(SysexBytes(d, intro, data)) =>
           /\ result.kind = "Ok"
           /\ result.midi.chunks =
                OneTrack(<<[type |-> "Sysex", dt |-> d, start |-> (intro = 240),
                            end |-> (Len(data) > 0 /\ data[Len(data)] = 247),
                            data |-> data]>>)
    /\ result # SysexIndexPanic

\* C7: a file of the header and whole chunk frames parses, and its chunks
\* are the MTrk chunks in file order: a chunk with another tag adds nothing
\* and leaves the MTrk chunks after it as they are.
C7_UnknownChunksSkipped ==
  Finished =>
    \A fs \in FrameSeqs :
      input = StdHeader \o FramesBytes(fs) =>
        /\ result.kind = "Ok"
        /\ result.midi.header = StdHeaderValue
        /\ result.midi.chunks = FramesChunks(fs)

\* C8: when var_length fails with Custom(0) while an event of a track is
\* decoded, parse_midi returns that error kind: no step around it turns it
\* into another kind or into a success.
C8_SubDecoderErrorPropagates ==
  Finished =>
    \A b \in MalformedBodies :
      input = TrackFile(b) => result = Err("Custom0")

\* C9: an MThd chunk of declared length L >= 6 with L body bytes is
\* accepted, L recorded, the three fields read from the first 6 body bytes,
\* the other L-6 bytes ignored, the chunks read from the byte after the
\* L-byte body.
C9_HeaderLengthHonoured ==
  Finished =>
    \A n \in 0..MaxExtra, fs \in LongHeaderFrames :
      input = HeaderBytes(1, 2, 96, ExtraBytes(n)) \o FramesBytes(fs) =>
        /\ result.kind = "Ok"
        /\ result.midi.header = [len |-> 6 + n, format |-> 1, tracks |-> 2,
                                 division |-> 96]
        /\ result.midi.chunks = FramesChunks(fs)

\* the bytes parse_file has consumed so far
Consumed == Take(input, Len(input) - Len(rest))

\* C10: the events of an MTrk chunk are read from its body alone: chunks
\* are scanned only at chunk boundaries (8 + len bytes after the tag of the
\* chunk before), and a track whose last event needs bytes past the end of
\* the body makes parse_midi return an error value (the claim's
\* UnexpectedEof, read as any Err value), whatever chunk follows it.
C10_EventsConfinedToBody ==
  /\ (pc \in {"chunks", "eof"} /\ input \in BoundaryInputs) => Framed(Consumed)
  /\ (Finished /\ input \in BoundaryInputs) => result.kind = "Err"

\* ------------------------------------------------------------------------
\* What the code does on the inputs above
\* ------------------------------------------------------------------------

\* a file cut short ends in the unreachable!() of parse_midi; so does a
\* track body cut inside an event, unless the cut event happens to read as
\* a two-byte event (00 FF 01), and then parse_midi succeeds: no truncated
\* buffer yields an Err value
TruncatedPanics ==
  /\ (Finished /\ input \in CutInputs) => result = Panic("parse_midi: unreachable!()")
  /\ (Finished /\ input \in (CutTrackInputs \cup BoundaryInputs)) =>
       \/ result = Panic("parse_midi: unreachable!()")
       \/ result.kind = "Ok" /\ StartsWith(Drop(input, 22), <<0, 255, 1>>)

\* a meta event is decoded when its introducer is written twice
DoubledMetaDecoded ==
  Finished =>
    \A d \in Deltas, k \in Kinds, data \in Datas :
      input = TrackFile(EncodeVLQ(d) \o <<255, 255, k>> \o EncodeVLQ(Len(data)) \o data) =>
        /\ result.kind = "Ok"
        /\ result.midi.chunks =
             OneTrack(<<[type |-> "Meta", dt |-> d, kind |-> k, data |-> data]>>)

\* a channel event of one data byte is consumed whole; one of two data
\* bytes never parses on its own
OneDataByteDecoded ==
  Finished =>
    \A d \in Deltas, s \in Statuses :
      \A x \in DataBytes(DataLen(s)) :
        input = TrackFile(ChannelBytes(d, s, x)) =>
          IF DataLen(s) = 1
          THEN /\ result.kind = "Ok"
               /\ result.midi.chunks = OneTrack(<<[type |-> "Midi", dt |-> d]>>)
          ELSE result.kind = "Panic"

\* chunks with another tag are skipped, and the MTrk chunks around them kept
\* in order, when no track holds a meta event
PlainFramesDecoded ==
  Finished =>
    \A fs \in SeqsUpTo(PlainFrameDescs, MaxFrames) :
      input = StdHeader \o FramesBytes(fs) =>
        /\ result.kind = "Ok"
        /\ result.midi.chunks = FramesChunks(fs)

\* a malformed variable-length quantity never reaches the caller as Custom(0)
Custom0NeverReturned == result # Err("Custom0")

\* the declared header length is recorded, and chunks are read from byte 14
HeaderLengthRecorded ==
  pc = "chunks" =>
    \A n \in 0..MaxExtra, fs \in LongHeaderFrames :
      input = HeaderBytes(1, 2, 96, ExtraBytes(n)) \o FramesBytes(fs) =>
        /\ hdr = [len |-> 6 + n, format |-> 1, tracks |-> 2, division |-> 96]
        /\ Framed(Consumed)

\* chunks are only ever scanned at chunk boundaries
ScanAtBoundaries ==
  (pc \in {"chunks", "eof"} /\ Len(input) >= 14) => Framed(Consumed)

====
